---------------------------- MODULE Spec2Model ----------------------------
(***************************************************************************)
(* Model of the reconciliation fetcher of src/clean_fetch.py (CleanFetcher *)
(* and main): a date-based sweep in 7-day windows (Phase 1), the gap        *)
(* analysis over the observed IDs, the ID-based backfill (Phase 2) and the *)
(* final sort-and-save.                                                     *)
(*                                                                         *)
(* Python strings are modelled as sequences of one-character strings, so   *)
(* that formatting ("{n}-{year}"), splitting on "-", int() and the          *)
(* lexicographic comparison of strings are computed, not assumed.          *)
(* Dates are modelled by their ordinal day number.                          *)
(***************************************************************************)
EXTENDS Integers, Sequences, FiniteSets, TLC

(***************************************************************************)
(* Bounds of the model (not program constants).                            *)
(***************************************************************************)
\* highest sequence number the registry has issued in a partition
MaxSeq == 3
\* last day (ordinal) a session may be asked for
MaxDay == 8
\* the registry serves at most MaxPages - 1 full pages per window
MaxPages == 2
\* last day (ordinal) of the window-planning specification
MaxPlanDay == 16
\* pages of a window in the pagination specification
MaxFetchPages == 3
\* number of records of a store handed to save_to_file on its own
MaxSaveRecs == 3
\* highest sequence number of the gap-analysis specification
MaxGapSeq == 4
\* longest batch, next to batch_size, of the batching specification
MaxBatch == 3
\* most missing IDs of a partition in the batching specification
MaxBatchIds == 3

(***************************************************************************)
(* Program constants.                                                      *)
(***************************************************************************)
\* clean_fetch.py:92  if len(page_events) < 100
PageSize == 100
\* clean_fetch.py:113  window_days = 7
window_days == 7
\* clean_fetch.py:256  batch_size = 100
batch_size == 100

(***************************************************************************)
(* Python values.                                                          *)
(***************************************************************************)
\* None: cannot be confused with a string, whose elements are single characters
None == <<"None">>
\* a key that the JSON object does not have
Absent == <<"Absent">>

\* the characters the model's strings are made of, in code point order
Alphabet == <<"-", "0", "1", "2", "3", "4", "5", "6", "7", "8", "9">>
DigitChars == <<"0", "1", "2", "3", "4", "5", "6", "7", "8", "9">>

CharOrd(c) == CHOOSE i \in 1..Len(Alphabet) : Alphabet[i] = c

IsDigit(c) == \E i \in 1..Len(DigitChars) : DigitChars[i] = c

DigitVal(c) == (CHOOSE i \in 1..Len(DigitChars) : DigitChars[i] = c) - 1

\* str < str of Python: lexicographic by code point, a proper prefix is smaller
RECURSIVE StrLess(_, _)
StrLess(a, b) ==
    IF b = <<>> THEN FALSE
    ELSE IF a = <<>> THEN TRUE
    ELSE IF a[1] = b[1] THEN StrLess(Tail(a), Tail(b))
    ELSE CharOrd(a[1]) < CharOrd(b[1])

\* str(n) for n >= 0, as the f-string of fetch_by_id formats id_num
RECURSIVE IntToStr(_)
IntToStr(n) ==
    IF n < 10 THEN <<DigitChars[n + 1]>>
    ELSE IntToStr(n \div 10) \o <<DigitChars[(n % 10) + 1]>>

\* int(s) accepts a non-empty run of decimal digits (and raises ValueError otherwise)
IntAccepts(s) == s # <<>> /\ \A i \in 1..Len(s) : IsDigit(s[i])

RECURSIVE StrToIntAcc(_, _, _)
StrToIntAcc(s, i, acc) ==
    IF i > Len(s) THEN acc ELSE StrToIntAcc(s, i + 1, acc * 10 + DigitVal(s[i]))

StrToInt(s) == StrToIntAcc(s, 1, 0)

\* "-" in s
HasDash(s) == \E i \in 1..Len(s) : s[i] = "-"

\* s.split("-")
RECURSIVE SplitDash(_)
SplitDash(s) ==
    IF ~HasDash(s) THEN <<s>>
    ELSE LET i == CHOOSE j \in 1..Len(s) :
                      s[j] = "-" /\ \A k \in 1..(j - 1) : s[k] # "-"
         IN  <<SubSeq(s, 1, i - 1)>> \o SplitDash(SubSeq(s, i + 1, Len(s)))

\* f"{id_num}-{year}"
FormatId(id_num, year) == IntToStr(id_num) \o <<"-">> \o year

\* truth value of a str-or-None
Truthy(v) == v # None /\ v # <<>>

Min(a, b) == IF a <= b THEN a ELSE b

SetMax(S) == CHOOSE x \in S : \A y \in S : y <= x

\* sorted(S) for a set of integers
RECURSIVE SortedInts(_)
SortedInts(S) ==
    IF S = {} THEN <<>>
    ELSE LET m == CHOOSE x \in S : \A y \in S : x <= y
         IN  <<m>> \o SortedInts(S \ {m})

\* sorted(S) for a set of strings
RECURSIVE SortedStrs(_)
SortedStrs(S) ==
    IF S = {} THEN <<>>
    ELSE LET m == CHOOSE x \in S : \A y \in S : y = x \/ StrLess(x, y)
         IN  <<m>> \o SortedStrs(S \ {m})

(***************************************************************************)
(* Events (JSON items) and the registry's vocabulary.                      *)
(***************************************************************************)
\* a JSON object with the fields the fetcher reads; an absent key is Absent
Event(id, ts, st) ==
    [json |-> "object", service_request_id |-> id,
     requested_datetime |-> ts, status |-> st]

\* an item that is no JSON object (a key of an error object, a bare string)
BadItem ==
    [json |-> "string", service_request_id |-> Absent,
     requested_datetime |-> Absent, status |-> "error"]

\* event.get(field): None when the key is absent
Get(e, field) == IF e[field] = Absent THEN None ELSE e[field]

\* event.get(field, default)
GetOr(e, field, default) == IF e[field] = Absent THEN default ELSE e[field]

\* partition keys (years) of the registry
Years == {<<"2", "5">>, <<"2", "6">>}

\* timestamps as the registry prints them (compared as strings)
TsEarly == <<"0", "1">>
TsLate == <<"0", "2">>

(***************************************************************************)
(* RecordStore: self.all_events, a dict in insertion order.                *)
(***************************************************************************)
DictKeys(d) == {d[i].k : i \in 1..Len(d)}

DictValues(d) == [i \in 1..Len(d) |-> d[i].v]

DictGet(d, key) == d[CHOOSE i \in 1..Len(d) : d[i].k = key].v

\* d[key] = val: replaces the value of a present key in place, else appends
DictSet(d, key, val) ==
    IF key \in DictKeys(d)
    THEN [i \in 1..Len(d) |-> IF d[i].k = key THEN [k |-> key, v |-> val] ELSE d[i]]
    ELSE Append(d, [k |-> key, v |-> val])

(***************************************************************************)
(* Phase 1: window planning (clean_fetch.py:112-120).                      *)
(***************************************************************************)
RECURSIVE PlanFrom(_, _)
PlanFrom(current, end) ==
    IF current <= end
    THEN LET window_end == Min(current + (window_days - 1), end)
         IN  <<<<current, window_end>>>> \o PlanFrom(window_end + 1, end)
    ELSE <<>>

\* windows that end window_days after they begin
RECURSIVE PlanFromLong(_, _)
PlanFromLong(current, end) ==
    IF current <= end
    THEN LET window_end == Min(current + window_days, end)
         IN  <<<<current, window_end>>>> \o PlanFromLong(window_end + 1, end)
    ELSE <<>>

PlanWindowsLong(start, end) == PlanFromLong(start, end)

PlanWindows(start, end) == PlanFrom(start, end)


(***************************************************************************)
(* State.                                                                  *)
(***************************************************************************)
VARIABLES
    start_date,       \* self.start_date (ordinal day)
    end_date,         \* self.end_date
    pc,               \* where main() is
    raised,           \* the exception that ended main(), "" when none
    client_closed,    \* fetcher.close() has run
    windows,          \* phase1: the planned windows
    wi,               \* phase1: index of the window being fetched
    page,             \* fetch_by_date_range: page
    events,           \* fetch_by_date_range: events (then the value returned)
    all_events,       \* self.all_events
    stats,            \* self.stats
    missing_by_year,  \* main: the result of analyze_missing_ids
    yi,               \* phase2: index of the year in sorted(missing_by_year)
    bi,               \* phase2: i, the offset of the current batch
    ji,               \* phase2: position of id_num in the current batch
    fetched_count,    \* phase2: fetched_count
    not_found_count,  \* phase2: not_found_count
    file,             \* all_events.json
    stats_file,       \* fetch_stats.json
    run,              \* how many times phase1_date_based_fetch was called
    script,           \* a registry that answers (window, page) the same way each time
    bsize,            \* phase2: batch_size, the length of a batch
    \* history variables: what an observer of the session has seen
    asked,            \* the pages requested for the current window, in order
    served,           \* the registry's answers to them
    cut,              \* the current window's fetch was ended by an exception
    returns,          \* <<value returned, ended by an exception>> of the fetches so far
    called,           \* the windows fetch_by_date_range was called for
    first_run,        \* all_events when the first phase1 run ended
    p1_keys,          \* the keys of all_events when the gap analysis ran
    lookups,          \* the point lookups: id_num, year, the answer's kind and record,
                      \* whether an error line was printed
    seen_ids,         \* the IDs merged into all_events so far
    last_write,       \* the record last merged under each of them
    replaced          \* a merge has put another record in the place of an earlier one

fetch_vars == <<page, events, asked, served, cut>>
phase1_vars == <<windows, wi, called>>
phase2_vars == <<yi, bi, ji, fetched_count, not_found_count, lookups>>
merge_vars == <<seen_ids, last_write, replaced>>
out_vars == <<file, stats_file>>
input_vars == <<start_date, end_date, script, bsize>>

vars ==
    <<start_date, end_date, pc, raised, client_closed, windows, wi, page, events,
      all_events, stats, missing_by_year, yi, bi, ji, fetched_count,
      not_found_count, file, stats_file, run, script, asked, served, cut,
      returns, called, first_run, p1_keys, lookups, seen_ids, last_write, replaced,
      bsize>>

\* a file that was not written
Unwritten == <<"unwritten">>

(***************************************************************************)
(* The registry's answers.  err: the exception the request raises          *)
(* ("network": client.get, "status": raise_for_status, "json":             *)
(* response.json), "none" when the body is delivered.                      *)
(***************************************************************************)
Response(err, status, body) == [err |-> err, status |-> status, body |-> body]

OkResponse(body) == Response("none", 200, body)

ErrorResponses ==
    {Response("network", 0, <<>>), Response("status", 500, <<>>),
     Response("json", 200, <<>>)}

NotFoundResponse == Response("status", 404, <<>>)

\* the timestamp the registry prints for a record: every shape of the field
\* occurs (a string, two records with the same one, no key, "", null)
RegistryTs(n, year, st) ==
    IF year = <<"2", "5">>
    THEN (IF n = 1 THEN TsEarly ELSE TsLate)
    ELSE (IF n = 1 THEN Absent
          ELSE IF n = 2 THEN (IF st = "closed" THEN None ELSE TsEarly)
          ELSE <<>>)

RegistryEvent(n, year, st) == Event(FormatId(n, year), RegistryTs(n, year, st), st)

\* an object without service_request_id
NoIdEvent == Event(Absent, TsEarly, "open")

\* what the date query may list in a session: every record as it is now, the
\* first record of a year also as it was once it is closed, an object without
\* an ID and an item that is no object
SweepItems ==
    {RegistryEvent(n, y, "open") : n \in 1..MaxSeq, y \in Years}
        \cup {RegistryEvent(1, y, "closed") : y \in Years}
        \cup {NoIdEvent, BadItem}

FullPage(x) == [i \in 1..PageSize |-> x]

\* the pages the date query may answer with in a session: nothing, one item, or
\* a full page of the latest record of a year
SessionPages ==
    {<<>>} \cup {<<x>> : x \in SweepItems}
        \cup {FullPage(RegistryEvent(MaxSeq, y, "open")) : y \in Years}

SessionResponses == {OkResponse(b) : b \in SessionPages} \cup ErrorResponses

(***************************************************************************)
(* fetch_by_date_range (clean_fetch.py:56-100), one iteration of its loop. *)
(***************************************************************************)
\* len(page_events) <= 100 in place of <
IsLastPageLe(page_events) == Len(page_events) <= PageSize

\* clean_fetch.py:92
IsLastPage(page_events) == Len(page_events) < PageSize

\* an except branch that drops what was collected
OnFetchErrorDrop(evs) == <<>>

\* clean_fetch.py:95-97: print and break; events is returned as it stands
OnFetchError(evs) == evs

\* the iteration: what events and page become, whether the loop goes on,
\* whether an exception ended it
FetchIter(evs, pg, resp) ==
    IF resp.err # "none"
    THEN [events |-> OnFetchError(evs), page |-> pg, again |-> FALSE, cut |-> TRUE]
    ELSE IF resp.body = <<>>
    THEN [events |-> evs, page |-> pg, again |-> FALSE, cut |-> FALSE]
    ELSE [events |-> evs \o resp.body, page |-> pg + 1,
          again |-> ~IsLastPage(resp.body), cut |-> FALSE]

FetchPage(resp) ==
    /\ pc = "fetch"
    /\ LET it == FetchIter(events, page, resp)
       IN  /\ events' = it.events
           /\ page' = it.page
           /\ cut' = it.cut
           /\ pc' = IF it.again THEN "fetch" ELSE "merge"
    /\ asked' = Append(asked, page)
    /\ served' = Append(served, resp)
    /\ UNCHANGED <<raised, client_closed, all_events, stats, missing_by_year,
                   run, first_run, p1_keys>>
    /\ UNCHANGED <<phase1_vars, phase2_vars, out_vars, input_vars>>
    /\ UNCHANGED merge_vars

(***************************************************************************)
(* phase1_date_based_fetch (clean_fetch.py:102-141).                       *)
(***************************************************************************)
\* the loop of lines 132-135 raises: event.get on an item that is no object
MergeRaises(evs) == \E i \in 1..Len(evs) : evs[i].json # "object"

\* the last index the loop of lines 132-135 handles before it ends or raises
LastMerged(evs) ==
    LET bad == {i \in 1..Len(evs) : evs[i].json # "object"}
    IN  IF bad = {} THEN Len(evs) ELSE (CHOOSE i \in bad : \A j \in bad : i <= j) - 1

\* lines 133-134: the indices whose event is stored (event_id is truthy)
StoredIndices(evs) ==
    {i \in 1..LastMerged(evs) : Truthy(Get(evs[i], "service_request_id"))}

\* the first and the last index up to last whose event carries the ID key
FirstIndexOf(evs, last, key) ==
    CHOOSE i \in 1..last :
        /\ Get(evs[i], "service_request_id") = key
        /\ \A h \in 1..(i - 1) : Get(evs[h], "service_request_id") # key

LastIndexOf(evs, last, key) ==
    LET m == CHOOSE m \in 1..last :
                 /\ Get(evs[last + 1 - m], "service_request_id") = key
                 /\ \A h \in 1..(m - 1) : Get(evs[last + 1 - h], "service_request_id") # key
    IN  last + 1 - m

\* the IDs the loop of lines 132-135 writes
WrittenIds(evs) == {Get(evs[i], "service_request_id") : i \in StoredIndices(evs)}

\* a loop that appends every event it stores, whether or not its ID is present
MergeAllAppend(d, evs) ==
    LET stored == SortedInts(StoredIndices(evs))
    IN  d \o [n \in 1..Len(stored) |->
                [k |-> Get(evs[stored[n]], "service_request_id"), v |-> evs[stored[n]]]]

\* a loop that stores an event only when its ID is not yet present
MergeAllKeepFirst(d, evs) ==
    LET last == LastMerged(evs)
        order == SortedInts({FirstIndexOf(evs, last, key) : key \in WrittenIds(evs) \ DictKeys(d)})
    IN  d \o [n \in 1..Len(order) |->
                [k |-> Get(evs[order[n]], "service_request_id"), v |-> evs[order[n]]]]

\* the store the loop of lines 132-135 leaves: self.all_events[event_id] = event
\* for every stored index in order, which is, for a dict in insertion order:
\* a present key keeps its place and takes the last event written under it,
\* a new key is appended where it is first written and takes the last event too
MergeAll(d, evs) ==
    LET last == LastMerged(evs)
        written == WrittenIds(evs)
        kept == [n \in 1..Len(d) |->
                    IF d[n].k \in written
                    THEN [k |-> d[n].k, v |-> evs[LastIndexOf(evs, last, d[n].k)]]
                    ELSE d[n]]
        order == SortedInts({FirstIndexOf(evs, last, key) : key \in written \ DictKeys(d)})
    IN  kept \o [n \in 1..Len(order) |->
                    LET key == Get(evs[order[n]], "service_request_id")
                    IN  [k |-> key, v |-> evs[LastIndexOf(evs, last, key)]]]

Phase1Stats(d) ==
    [stats EXCEPT !.date_fetch_duration = "measured", !.date_fetch_count = Len(d)]

\* lines 112-125, and the call of fetch_by_date_range for the first window
Phase1Start ==
    /\ windows' = PlanWindows(start_date, end_date)
    /\ wi' = 1
    /\ IF windows' = <<>>
       THEN /\ pc' = "analyze"
            /\ stats' = Phase1Stats(all_events)
            /\ called' = called
       ELSE /\ pc' = "fetch"
            /\ stats' = stats
            /\ called' = Append(called, windows'[1])
    /\ page' = 1
    /\ events' = <<>>
    /\ asked' = <<>>
    /\ served' = <<>>
    /\ cut' = FALSE
    /\ UNCHANGED <<raised, client_closed, all_events, missing_by_year,
                   returns, p1_keys>>
    /\ UNCHANGED <<phase2_vars, out_vars, input_vars>>
    /\ UNCHANGED merge_vars

\* lines 131-135 for the window just fetched, then the next window or lines 137-138
MergeWindow ==
    /\ pc = "merge"
    /\ all_events' = MergeAll(all_events, events)
    /\ IF MergeRaises(events)
       THEN /\ pc' = "crashed"
            /\ raised' = "AttributeError"
            /\ client_closed' = TRUE
            /\ UNCHANGED <<wi, stats, called>>
       ELSE /\ UNCHANGED <<raised, client_closed>>
            /\ IF wi < Len(windows)
               THEN /\ wi' = wi + 1
                    /\ pc' = "fetch"
                    /\ called' = Append(called, windows[wi + 1])
                    /\ stats' = stats
               ELSE /\ wi' = wi
                    /\ pc' = "analyze"
                    /\ called' = called
                    /\ stats' = Phase1Stats(all_events')
    /\ page' = 1
    /\ events' = <<>>
    /\ asked' = <<>>
    /\ served' = <<>>
    /\ cut' = FALSE
    /\ UNCHANGED <<windows, missing_by_year, run, returns, first_run, p1_keys>>
    /\ UNCHANGED <<phase2_vars, out_vars, input_vars>>
    /\ LET written == WrittenIds(events)
           Written(id) == {events[i] : i \in {h \in StoredIndices(events) :
                                                Get(events[h], "service_request_id") = id}}
       IN  /\ seen_ids' = seen_ids \cup written
           /\ last_write' = [id \in seen_ids' |->
                                IF id \in written
                                THEN events[LastIndexOf(events, LastMerged(events), id)]
                                ELSE last_write[id]]
           /\ replaced' = (replaced \/ \E id \in written :
                              \/ Cardinality(Written(id)) > 1
                              \/ id \in seen_ids /\ Written(id) # {last_write[id]})

(***************************************************************************)
(* analyze_missing_ids (clean_fetch.py:143-185).                           *)
(***************************************************************************)
\* lines 156-161: the keys that enter ids_by_year
DashedKeys(keys) == {key \in keys : HasDash(key)}

\* int(parts[0]) raises ValueError
AnalyzeRaises(keys) == \E key \in DashedKeys(keys) : ~IntAccepts(SplitDash(key)[1])

\* ids_by_year: year -> set of id_num
IdsByYear(keys) ==
    [year \in {SplitDash(key)[2] : key \in DashedKeys(keys)} |->
        {StrToInt(SplitDash(key)[1]) : key \in {c \in DashedKeys(keys) : SplitDash(c)[2] = year}}]

\* range(min_id, max_id + 1) in place of range(1, max_id + 1)
ExpectedIdsFromMin(ids) ==
    (CHOOSE x \in ids : \A y \in ids : x <= y)..SetMax(ids)

\* an expected range that reaches one past the highest observed ID
ExpectedIdsBeyond(ids) == 1..(SetMax(ids) + 1)

\* lines 171-175: set(range(1, max_id + 1))
ExpectedIds(ids) == 1..SetMax(ids)

\* lines 163-185: missing_by_year
AnalyzeMissing(keys) ==
    LET ids_by_year == IdsByYear(keys)
    IN  [year \in DOMAIN ids_by_year |-> ExpectedIds(ids_by_year[year]) \ ids_by_year[year]]

AnalyzeMissingIds ==
    /\ pc = "analyze"
    /\ IF AnalyzeRaises(DictKeys(all_events))
       THEN /\ pc' = "crashed"
            /\ raised' = "ValueError"
            /\ client_closed' = TRUE
            /\ UNCHANGED missing_by_year
       ELSE /\ pc' = "phase2"
            /\ missing_by_year' = AnalyzeMissing(DictKeys(all_events))
            /\ UNCHANGED <<raised, client_closed>>
    /\ p1_keys' = DictKeys(all_events)
    /\ UNCHANGED <<all_events, stats, run, returns, first_run>>
    /\ UNCHANGED <<fetch_vars, phase1_vars, phase2_vars, out_vars, input_vars>>
    /\ UNCHANGED merge_vars

(***************************************************************************)
(* fetch_by_id (clean_fetch.py:187-219).                                   *)
(***************************************************************************)
\* the None that fetch_by_id returns, as an item
NoEvent ==
    [json |-> "null", service_request_id |-> Absent,
     requested_datetime |-> Absent, status |-> "none"]

\* what fetch_by_id returns for the registry's answer: events[0], or None
FetchById(resp) ==
    IF resp.err # "none" THEN NoEvent
    ELSE IF resp.body # <<>> THEN resp.body[1]
    ELSE NoEvent

\* lines 214, 217 and 284: an "Error fetching <id>" line is printed for every
\* exception but the 404 (an item that is no object raises at line 274)
PrintsError(resp) ==
    \/ resp.err # "none" /\ ~(resp.err = "status" /\ resp.status = 404)
    \/ resp.err = "none" /\ resp.body # <<>> /\ resp.body[1].json # "object"

\* the registry's answer, for the history: one record, HTTP 404, a 2xx with an
\* empty array, or anything else
LookupKind(resp) ==
    IF resp.err = "none" /\ resp.body # <<>> /\ resp.body[1].json = "object" THEN "found"
    ELSE IF resp.err = "none" /\ resp.body = <<>> THEN "empty"
    ELSE IF resp.err = "status" /\ resp.status = 404 THEN "not_found"
    ELSE "failed"

(***************************************************************************)
(* phase2_id_based_fetch (clean_fetch.py:221-299).                         *)
(***************************************************************************)
\* line 232
TotalMissing(missing) ==
    LET RECURSIVE Sum(_)
        Sum(ys) == IF ys = {} THEN 0
                   ELSE LET y == CHOOSE z \in ys : TRUE
                        IN  Cardinality(missing[y]) + Sum(ys \ {y})
    IN  Sum(DOMAIN missing)

SortedYears(missing) == SortedStrs(DOMAIN missing)

\* line 245
MissingIds(missing, y) == SortedInts(missing[SortedYears(missing)[y]])

\* line 260: missing_ids[i:i+batch_size]; bsize is batch_size
Batch(missing_ids, i) == SubSeq(missing_ids, i + 1, Min(i + bsize, Len(missing_ids)))

\* the first year at or after index y whose missing_ids is not empty (line 247),
\* Len + 1 when there is none
RECURSIVE NextYear(_, _)
NextYear(missing, y) ==
    IF y > Len(SortedYears(missing)) THEN y
    ELSE IF MissingIds(missing, y) # <<>> THEN y
    ELSE NextYear(missing, y + 1)

\* loops that leave a year after its first batch
NextPositionOneBatch(missing, y, i, j) ==
    LET missing_ids == MissingIds(missing, y)
    IN  IF j < Len(Batch(missing_ids, i)) THEN [yi |-> y, bi |-> i, ji |-> j + 1]
        ELSE [yi |-> NextYear(missing, y + 1), bi |-> 0, ji |-> 1]

\* where the three loops stand after the id at (y, i, j) is done
NextPosition(missing, y, i, j) ==
    LET missing_ids == MissingIds(missing, y)
    IN  IF j < Len(Batch(missing_ids, i)) THEN [yi |-> y, bi |-> i, ji |-> j + 1]
        ELSE IF i + bsize < Len(missing_ids)
        THEN [yi |-> y, bi |-> i + bsize, ji |-> 1]
        ELSE [yi |-> NextYear(missing, y + 1), bi |-> 0, ji |-> 1]

\* loops that end after the first id_num
Phase2DoneEarly(missing, y) == TRUE

\* line 244: the loop over the years has ended
Phase2Done(missing, y) == y > Len(SortedYears(missing))

\* a no-op that runs on to the stats lines 294-295 before it returns
NoOpStatsTimed(st) == [st EXCEPT !.id_fetch_duration = "measured", !.id_fetch_count = 0]

\* lines 234-236: print and return, the stats are not touched
NoOpStats(st) == st

\* lines 232-242 and the way to the first id_num
Phase2Start ==
    /\ pc = "phase2"
    /\ IF TotalMissing(missing_by_year) = 0
       THEN /\ pc' = "save"
            /\ stats' = NoOpStats(stats)
            /\ UNCHANGED <<yi, bi, ji, fetched_count, not_found_count>>
       ELSE /\ pc' = "lookup"
            /\ stats' = stats
            /\ yi' = NextYear(missing_by_year, 1)
            /\ bi' = 0
            /\ ji' = 1
            /\ fetched_count' = 0
            /\ not_found_count' = 0
    /\ UNCHANGED <<raised, client_closed, all_events, missing_by_year, run,
                   returns, first_run, p1_keys, lookups>>
    /\ UNCHANGED <<fetch_vars, phase1_vars, out_vars, input_vars, merge_vars>>

\* the id_num and year the loops stand at
CurrentYear == SortedYears(missing_by_year)[yi]
CurrentIdNum == Batch(MissingIds(missing_by_year, yi), bi)[ji]

\* how lines 271-288 count the value fetch_by_id returned
Outcome(event) == IF event.json = "object" THEN "fetched" ELSE "not_found"

\* a merge that puts the record in the place of the whole store
Phase2MergeReset(d, event, id_num, year) ==
    <<[k |-> Get(event, "service_request_id"), v |-> event]>>

\* a found record that is counted and not stored
Phase2MergeDrop(d, event, id_num, year) == d

\* lines 274-275
Phase2Merge(d, event, id_num, year) == DictSet(d, Get(event, "service_request_id"), event)

\* a count that takes every answered lookup for a fetched record
CountsAsFetchedAlways(event) == TRUE

\* line 273: if event (an item that is no object raises at line 274 instead)
CountsAsFetched(event) == Outcome(event) = "fetched"

\* a count that leaves out the lookups that ended with an exception
NotFoundAfterOnlyAbsent(n, resp) ==
    IF LookupKind(resp) \in {"not_found", "empty"} THEN n + 1 ELSE n

\* lines 279-282 and 283-287: the else branch and the except branch both add
\* one to not_found_count
NotFoundAfter(n, resp) == n + 1

\* lines 269-288 for one id_num, then the loops' next position or lines 294-295
LookupId(resp) ==
    /\ pc = "lookup"
    /\ LET event == FetchById(resp)
           pos == NextPosition(missing_by_year, yi, bi, ji)
       IN  /\ IF CountsAsFetched(event)
              THEN /\ all_events' = Phase2Merge(all_events, event, CurrentIdNum, CurrentYear)
                   /\ fetched_count' = fetched_count + 1
                   /\ not_found_count' = not_found_count
              ELSE /\ all_events' = all_events
                   /\ fetched_count' = fetched_count
                   /\ not_found_count' = NotFoundAfter(not_found_count, resp)
           /\ lookups' = Append(lookups,
                  [id_num |-> CurrentIdNum, year |-> CurrentYear,
                   outcome |-> LookupKind(resp),
                   event |-> IF LookupKind(resp) = "found" THEN resp.body[1] ELSE NoEvent,
                   printed |-> PrintsError(resp)])
           /\ yi' = pos.yi
           /\ bi' = pos.bi
           /\ ji' = pos.ji
           /\ IF Phase2Done(missing_by_year, pos.yi)
              THEN /\ pc' = "save"
                   /\ stats' = [stats EXCEPT !.id_fetch_duration = "measured",
                                             !.id_fetch_count = fetched_count']
              ELSE /\ pc' = "lookup"
                   /\ stats' = stats
    /\ LET event == FetchById(resp)
           event_id == Get(event, "service_request_id")
       IN  IF LookupKind(resp) = "found"
           THEN /\ seen_ids' = seen_ids \cup {event_id}
                /\ last_write' = [id \in seen_ids' |->
                                     IF id = event_id THEN event ELSE last_write[id]]
                /\ replaced' = (replaced \/ (event_id \in seen_ids /\ last_write[event_id] # event))
           ELSE UNCHANGED merge_vars
    /\ UNCHANGED <<raised, client_closed, missing_by_year, run, returns, first_run,
                   p1_keys>>
    /\ UNCHANGED <<fetch_vars, phase1_vars, out_vars, input_vars>>

(***************************************************************************)
(* save_to_file (clean_fetch.py:301-319).                                  *)
(***************************************************************************)
\* line 312: the sort key
SortKey(e) == GetOr(e, "requested_datetime", <<>>)

\* a < b on two sort keys raises TypeError when either is None
CompareRaises(a, b) == a = None \/ b = None

\* list.sort compares every element with another one once the list has two
SortRaises(list) ==
    /\ Len(list) >= 2
    /\ \E i, j \in 1..Len(list) : i # j /\ CompareRaises(SortKey(list[i]), SortKey(list[j]))

\* e put into acc, sorted by key descending, behind the elements whose key is not smaller
InsertDesc(acc, e) ==
    LET before == {i \in 1..Len(acc) : ~StrLess(SortKey(acc[i]), SortKey(e))}
        n == IF before = {} THEN 0 ELSE SetMax(before)
    IN  SubSeq(acc, 1, n) \o <<e>> \o SubSeq(acc, n + 1, Len(acc))

RECURSIVE SortFrom(_, _, _)
SortFrom(acc, list, i) ==
    IF i > Len(list) THEN acc ELSE SortFrom(InsertDesc(acc, list[i]), list, i + 1)

\* lines 311-314: sort(key=..., reverse=True), stable
SortedDesc(list) == SortFrom(<<>>, list, 1)

SaveToFile ==
    /\ pc = "save"
    /\ LET events_list == DictValues(all_events)
       IN  IF SortRaises(events_list)
           THEN /\ pc' = "crashed"
                /\ raised' = "TypeError"
                /\ client_closed' = TRUE
                /\ file' = file
           ELSE /\ pc' = "stats"
                /\ file' = SortedDesc(events_list)
                /\ UNCHANGED <<raised, client_closed>>
    /\ UNCHANGED <<all_events, stats, missing_by_year, stats_file, run, returns,
                   first_run, p1_keys>>
    /\ UNCHANGED <<fetch_vars, phase1_vars, phase2_vars, input_vars>>
    /\ UNCHANGED merge_vars

(***************************************************************************)
(* main (clean_fetch.py:366-415): what follows the save.                   *)
(***************************************************************************)
\* lines 398-399
SaveStats ==
    /\ pc = "stats"
    /\ stats_file' = stats
    /\ pc' = "summary"
    /\ UNCHANGED <<raised, client_closed, all_events, stats, missing_by_year, file,
                   run, returns, first_run, p1_keys>>
    /\ UNCHANGED <<fetch_vars, phase1_vars, phase2_vars, input_vars>>
    /\ UNCHANGED merge_vars

\* print_summary, line 355: "-" in event_id raises TypeError on a None key
SummaryRaises(d) == None \in DictKeys(d)

\* lines 403-405, then the finally of line 415
PrintSummary ==
    /\ pc = "summary"
    /\ IF SummaryRaises(all_events)
       THEN pc' = "crashed" /\ raised' = "TypeError"
       ELSE pc' = "done" /\ raised' = raised
    /\ client_closed' = TRUE
    /\ UNCHANGED <<all_events, stats, missing_by_year, run, returns, first_run, p1_keys>>
    /\ UNCHANGED <<fetch_vars, phase1_vars, phase2_vars, out_vars, input_vars>>
    /\ UNCHANGED merge_vars

Running == {"phase1", "fetch", "merge", "analyze", "phase2", "lookup", "save",
            "stats", "summary"}

\* a file that open(..., 'w') has truncated and json.dump has not finished
Partial == <<"partial">>

\* a handler that writes the records it has before it ends
OnInterruptSave(f, d) == DictValues(d)

\* lines 407-408: the handler prints two lines; the records file stays as it is
OnInterrupt(f, d) == f

\* lines 407-408 and 415: KeyboardInterrupt anywhere inside the try; one that
\* arrives inside save_to_file or inside the dump of the stats may leave the
\* file it was writing half-written
Interrupt ==
    /\ pc \in Running
    /\ pc' = "interrupted"
    /\ raised' = "KeyboardInterrupt"
    /\ client_closed' = TRUE
    /\ file' \in {OnInterrupt(file, all_events)} \cup (IF pc = "save" THEN {Partial} ELSE {})
    /\ stats_file' \in {stats_file} \cup (IF pc = "stats" THEN {Partial} ELSE {})
    /\ UNCHANGED <<all_events, stats, missing_by_year, run, returns, first_run, p1_keys>>
    /\ UNCHANGED <<fetch_vars, phase1_vars, phase2_vars, input_vars>>
    /\ UNCHANGED merge_vars

(***************************************************************************)
(* The session: main() against a registry that answers as it likes.        *)
(***************************************************************************)
\* CleanFetcher.__init__ (lines 40-50)
InitStats ==
    [date_fetch_count |-> 0, id_fetch_count |-> 0, total_events |-> 0,
     date_fetch_duration |-> "zero", id_fetch_duration |-> "zero"]

\* the state __init__ leaves, for the given dates
Fresh(start, end) ==
    /\ start_date = start
    /\ end_date = end
    /\ raised = ""
    /\ client_closed = FALSE
    /\ windows = <<>>
    /\ wi = 1
    /\ page = 1
    /\ events = <<>>
    /\ stats = InitStats
    /\ missing_by_year = <<>>
    /\ yi = 1
    /\ bi = 0
    /\ ji = 1
    /\ fetched_count = 0
    /\ not_found_count = 0
    /\ file = Unwritten
    /\ stats_file = Unwritten
    /\ run = 0
    /\ asked = <<>>
    /\ served = <<>>
    /\ cut = FALSE
    /\ returns = {}
    /\ called = <<>>
    /\ first_run = <<>>
    /\ p1_keys = {}
    /\ lookups = <<>>
    /\ seen_ids = {}
    /\ last_write = <<>>
    /\ replaced = FALSE

Constructed(start, end) == Fresh(start, end) /\ all_events = <<>>

Init ==
    /\ \E start \in {1, 2}, end \in {1, MaxDay} : Constructed(start, end)
    /\ script = <<>>
    /\ bsize = batch_size
    /\ pc = "phase1"

\* the registry has full pages only for the first MaxPages - 1 requests of a window
Serves(resp, pages) == Len(resp.body) = PageSize => page < pages

SweepRequest ==
    /\ \E resp \in SessionResponses : Serves(resp, MaxPages) /\ FetchPage(resp)
    /\ UNCHANGED returns

\* a record of another ID than the one asked for
OtherEvent(n, year) == RegistryEvent((n % MaxSeq) + 1, year, "closed")

\* the answers the by-ID endpoint may give for (n, year)
LookupResponses(n, year) ==
    {OkResponse(<<RegistryEvent(n, year, "open")>>), OkResponse(<<OtherEvent(n, year)>>),
     OkResponse(<<NoIdEvent>>), OkResponse(<<BadItem>>), OkResponse(<<>>),
     NotFoundResponse} \cup ErrorResponses

LookupRequest ==
    /\ pc = "lookup"
    /\ \E resp \in LookupResponses(CurrentIdNum, CurrentYear) : LookupId(resp)

\* line 383
Phase1Call ==
    /\ pc = "phase1"
    /\ Phase1Start
    /\ run' = run + 1
    /\ UNCHANGED first_run

Next ==
    \/ Phase1Call
    \/ SweepRequest
    \/ MergeWindow
    \/ AnalyzeMissingIds
    \/ Phase2Start
    \/ LookupRequest
    \/ SaveToFile
    \/ SaveStats
    \/ PrintSummary

Spec == Init /\ [][Next]_vars

(***************************************************************************)
(* The session with an operator who may press Ctrl-C at any point of it.   *)
(***************************************************************************)
NextInterrupt ==
    \/ Next
    \/ Interrupt

SpecInterrupt == Init /\ [][NextInterrupt]_vars


(***************************************************************************)
(* Window planning on its own: phase1_date_based_fetch is called for every *)
(* pair of dates up to MaxPlanDay.                                         *)
(***************************************************************************)
InitPlan ==
    /\ \E start, end \in 1..MaxPlanDay : Constructed(start, end)
    /\ script = <<>>
    /\ bsize = batch_size
    /\ pc = "phase1"

NextPlan == Phase1Call

SpecPlan == InitPlan /\ [][NextPlan]_vars

(***************************************************************************)
(* Pagination on its own: Phase 1 against a registry whose pages have many *)
(* sizes and few contents.                                                 *)
(***************************************************************************)
\* the page sizes the registry answers with
FetchSizes == {0, 1, 37, 42, PageSize - 1, PageSize}

FetchItems == {RegistryEvent(1, <<"2", "5">>, "open"), RegistryEvent(2, <<"2", "5">>, "open")}

FetchResponses ==
    {OkResponse([i \in 1..n |-> x]) : n \in FetchSizes, x \in FetchItems} \cup ErrorResponses

InitFetch ==
    /\ \E end \in {1, MaxDay} : Constructed(1, end)
    /\ script = <<>>
    /\ bsize = batch_size
    /\ pc = "phase1"

\* a request of fetch_by_date_range; when it was the last one, the value the
\* caller receives is noted with the way the loop ended
FetchRequest ==
    /\ \E resp \in FetchResponses : Serves(resp, MaxFetchPages) /\ FetchPage(resp)
    /\ returns' = IF pc' = "merge"
                  THEN returns \cup {[value |-> events', cut |-> cut']}
                  ELSE returns

NextFetch ==
    \/ Phase1Call
    \/ FetchRequest
    \/ MergeWindow

SpecFetch == InitFetch /\ [][NextFetch]_vars

(***************************************************************************)
(* Gap analysis on its own: analyze_missing_ids on every store whose keys  *)
(* are IDs of the registry or IDs without a dash.                          *)
(***************************************************************************)
\* sequence numbers of one and of two digits
GapNums == (1..MaxGapSeq) \cup {10, 12}

GapKeys ==
    {FormatId(n, y) : n \in GapNums, y \in Years} \cup {<<"7">>, <<"-", "2", "5">>}

\* a store with the given keys
StoreOf(keys) ==
    LET ks == SortedStrs(keys)
    IN  [i \in 1..Len(ks) |-> [k |-> ks[i], v |-> Event(ks[i], TsEarly, "open")]]

\* Phase 1 has returned and left a store
InitAnalyze ==
    /\ Fresh(1, 1)
    /\ \E keys \in SUBSET GapKeys : all_events = StoreOf(keys)
    /\ script = <<>>
    /\ bsize = batch_size
    /\ pc = "analyze"

NextAnalyze == AnalyzeMissingIds

SpecAnalyze == InitAnalyze /\ [][NextAnalyze]_vars

(***************************************************************************)
(* The gap analysis and Phase 2 with batches of any length: the loops of   *)
(* lines 244-288 with batch_size as a parameter.                           *)
(***************************************************************************)
BatchSizes == (1..MaxBatch) \cup {batch_size}

\* the stores Phase 1 may have left: gaps of 1 to MaxBatchIds IDs per partition
BatchKeys == {FormatId(n, y) : n \in {2, MaxBatchIds + 1}, y \in Years}

\* the by-ID endpoint answers with the record, with a 404 or not at all
BatchResponses(n, year) ==
    {OkResponse(<<RegistryEvent(n, year, "open")>>), NotFoundResponse,
     Response("network", 0, <<>>)}

InitBatch ==
    /\ Fresh(1, 1)
    /\ \E keys \in SUBSET BatchKeys : all_events = StoreOf(keys)
    /\ script = <<>>
    /\ bsize \in BatchSizes
    /\ pc = "analyze"

BatchRequest ==
    /\ pc = "lookup"
    /\ \E resp \in BatchResponses(CurrentIdNum, CurrentYear) : LookupId(resp)

NextBatch ==
    \/ AnalyzeMissingIds
    \/ Phase2Start
    \/ BatchRequest

SpecBatch == InitBatch /\ [][NextBatch]_vars

(***************************************************************************)
(* save_to_file on its own: every store of up to MaxSaveRecs records and   *)
(* every shape of their timestamps.                                        *)
(***************************************************************************)
TsValues == {Absent, <<>>, None, TsEarly, TsLate}

SaveStores ==
    UNION {{[i \in 1..n |->
               [k |-> FormatId(i, <<"2", "5">>),
                v |-> Event(FormatId(i, <<"2", "5">>), ts[i], "open")]] :
            ts \in [1..n -> TsValues]} : n \in 0..MaxSaveRecs}

\* the two phases have returned and left a store
InitSave ==
    /\ Fresh(1, 1)
    /\ all_events \in SaveStores
    /\ script = <<>>
    /\ bsize = batch_size
    /\ pc = "save"

NextSave == SaveToFile

SpecSave == InitSave /\ [][NextSave]_vars

(***************************************************************************)
(* Phase 1 twice in a row against a registry that answers every            *)
(* (window, page) the same way both times.                                 *)
(***************************************************************************)
RerunItemA == RegistryEvent(1, <<"2", "5">>, "open")
RerunItemB == RegistryEvent(2, <<"2", "5">>, "open")

RerunResponses ==
    {OkResponse(<<>>), OkResponse(<<RerunItemA>>),
     OkResponse(<<RegistryEvent(1, <<"2", "5">>, "closed"), RerunItemB>>),
     OkResponse(FullPage(RerunItemB)), OkResponse(<<RerunItemA, BadItem>>),
     Response("status", 500, <<>>)}

\* the windows and pages a script answers
ScriptWindows == 1..((MaxDay + window_days - 1) \div window_days)

InitRerun ==
    /\ Constructed(1, MaxDay)
    /\ script \in [ScriptWindows -> [1..MaxPages -> RerunResponses]]
    /\ bsize = batch_size
    /\ \A w \in ScriptWindows : Len(script[w][MaxPages].body) < PageSize
    /\ pc = "phase1"

ScriptedRequest ==
    /\ pc = "fetch"
    /\ FetchPage(script[wi][page])
    /\ UNCHANGED returns

\* phase1_date_based_fetch is called again when it has returned
SecondCall ==
    /\ pc = "analyze"
    /\ run = 1
    /\ Phase1Start
    /\ run' = 2
    /\ first_run' = all_events

NextRerun ==
    \/ Phase1Call
    \/ ScriptedRequest
    \/ MergeWindow
    \/ SecondCall

SpecRerun == InitRerun /\ [][NextRerun]_vars

(***************************************************************************)
(* The claims.                                                             *)
(***************************************************************************)
\* the sequence numbers n of partition y whose ID "n-y" is among keys
NumsIn(keys, y, nums) == {n \in nums : FormatId(n, y) \in keys}

AfterPhase2 == {"save", "stats", "summary", "done"}

\* no point lookup failed, and every record found carries the ID asked for
HonestLookups ==
    \A i \in 1..Len(lookups) :
        /\ lookups[i].outcome # "failed"
        /\ lookups[i].outcome = "found" =>
              Get(lookups[i].event, "service_request_id")
                  = FormatId(lookups[i].id_num, lookups[i].year)

LookedUp(n, y, outcomes) ==
    \E i \in 1..Len(lookups) :
        lookups[i].id_num = n /\ lookups[i].year = y /\ lookups[i].outcome \in outcomes

\* C1: when Phase 2 has finished and every lookup was answered honestly, the
\* store holds, for each partition seen in Phase 1, exactly the sequence
\* numbers 1..maxObserved that exist at the registry (seen by the sweep, or
\* found by a lookup); every other number of 1..maxObserved was answered as
\* absent and is not in the store; such a partition has no number above
\* maxObserved in the store.
C1_EndToEnd ==
    (pc \in AfterPhase2 /\ HonestLookups) =>
        \A y \in Years :
            LET observed == NumsIn(p1_keys, y, 1..MaxSeq)
                final == NumsIn(DictKeys(all_events), y, 1..MaxSeq)
                Exists(n) == n \in observed \/ LookedUp(n, y, {"found"})
                Deleted(n) == LookedUp(n, y, {"not_found", "empty"})
            IN  observed # {} =>
                   /\ final = {n \in 1..SetMax(observed) : Exists(n)}
                   /\ \A n \in 1..SetMax(observed) : Exists(n) # Deleted(n)

\* a session as the end-to-end scenario: a partition whose sweep missed two
\* numbers below the maximum, one found by its lookup and one deleted
C1_Witness ==
    /\ pc = "done"
    /\ HonestLookups
    /\ \E y \in Years :
          /\ NumsIn(p1_keys, y, 1..MaxSeq) = {3}
          /\ LookedUp(1, y, {"found"})
          /\ LookedUp(2, y, {"not_found"})
          /\ NumsIn(DictKeys(all_events), y, 1..MaxSeq) = {1, 3}

\* every key with a dash is "<digits>-<partition>", the composite ID's string form
CompositeKeys(keys) == \A key \in DashedKeys(keys) : IntAccepts(SplitDash(key)[1])

\* C2: for store keys that are composite IDs, analyze_missing_ids returns, and
\* its result has, for every partition with at least one observed ID "n-y",
\* exactly the numbers of 1..maxObserved that are not observed (none when all
\* are), and no entry for any other partition; a key without a dash belongs
\* to no partition.
C2_GapCorrectness ==
    (pc # "analyze" /\ CompositeKeys(DictKeys(all_events))) =>
        /\ pc = "phase2"
        /\ DOMAIN missing_by_year \subseteq Years
        /\ \A y \in Years :
              LET observed == NumsIn(DictKeys(all_events), y, 1..SetMax(GapNums))
              IN  IF observed = {}
                  THEN y \notin DOMAIN missing_by_year
                  ELSE /\ y \in DOMAIN missing_by_year
                       /\ missing_by_year[y] = {n \in 1..SetMax(observed) : n \notin observed}

\* observed {1,2,4} gives {3}, observed 1..2 gives the empty set, and a
\* partition without an observed ID gives no entry (the key "7" has no dash)
C2_Witness ==
    /\ pc = "phase2"
    /\ DictKeys(all_events) =
          {FormatId(1, <<"2", "5">>), FormatId(2, <<"2", "5">>), FormatId(4, <<"2", "5">>), <<"7">>}
    /\ DOMAIN missing_by_year = {<<"2", "5">>}
    /\ missing_by_year[<<"2", "5">>] = {3}

\* a second state of the same case: full coverage of one partition and a
\* two-digit maximum in the other
C2_WitnessFull ==
    /\ pc = "phase2"
    /\ DictKeys(all_events) =
          {FormatId(1, <<"2", "5">>), FormatId(2, <<"2", "5">>), FormatId(10, <<"2", "6">>)}
    /\ missing_by_year[<<"2", "5">>] = {}
    /\ missing_by_year[<<"2", "6">>] = 1..9

\* the bodies of the pages 1..n of the current window, one after the other
RECURSIVE Concat(_, _)
Concat(pages, n) == IF n = 0 THEN <<>> ELSE Concat(pages, n - 1) \o pages[n].body

PageSizes == [i \in 1..Len(served) |-> Len(served[i].body)]

\* C3: a window fetch asks for the pages 1, 2, ... in this order, each once;
\* while it runs, every page answered so far was a full one and the next page
\* to ask for is the one after them; when it has ended without an error, the
\* last page had fewer than 100 items, every page before it exactly 100, and
\* the value returned is the pages in order.
C3_Pagination ==
    /\ pc \in {"fetch", "merge"} =>
          /\ asked = [i \in 1..Len(asked) |-> i]
          /\ Len(served) = Len(asked)
    /\ pc = "fetch" =>
          /\ page = Len(asked) + 1
          /\ \A i \in 1..Len(served) :
                served[i].err = "none" /\ Len(served[i].body) = PageSize
    /\ (pc = "merge" /\ ~cut) =>
          LET k == Len(asked)
          IN  /\ k >= 1
              /\ \A i \in 1..k : served[i].err = "none"
              /\ \A i \in 1..(k - 1) : Len(served[i].body) = PageSize
              /\ Len(served[k].body) < PageSize
              /\ events = Concat(served, k)

\* pages of sizes [100, 100, 37]: 3 requests and 237 records
C3_Witness ==
    /\ pc = "merge"
    /\ ~cut
    /\ PageSizes = <<100, 100, 37>>
    /\ asked = <<1, 2, 3>>
    /\ Len(events) = 237

\* a first page of 42: one request
C3_WitnessShort ==
    /\ pc = "merge"
    /\ ~cut
    /\ PageSizes = <<42>>
    /\ asked = <<1>>
    /\ Len(events) = 42

\* the entry the step just added to the lookup history
LastLookup == lookups'[Len(lookups')]

LookupStep == pc = "lookup" /\ Len(lookups') = Len(lookups) + 1

FoundCount == Cardinality({i \in 1..Len(lookups) : lookups[i].outcome = "found"})

\* C4: a Phase 2 point lookup answered with HTTP 404, or with a 2xx status and
\* an empty array, leaves the store unchanged and does not raise the fetched
\* count; one answered with a record stores that record and raises the fetched
\* count by exactly one.
C4_LookupOutcome ==
    [][LookupStep =>
          /\ LastLookup.outcome \in {"not_found", "empty"} =>
                /\ all_events' = all_events
                /\ fetched_count' = fetched_count
          /\ LastLookup.outcome = "found" =>
                /\ fetched_count' = fetched_count + 1
                /\ Get(LastLookup.event, "service_request_id") \in DictKeys(all_events')
                /\ DictGet(all_events', Get(LastLookup.event, "service_request_id"))
                      = LastLookup.event]_vars

\* a backfill that met a 404, an empty array and a record: one record counted
C4_Witness ==
    /\ pc = "save"
    /\ \E i, j, k \in 1..Len(lookups) :
          /\ lookups[i].outcome = "not_found"
          /\ lookups[j].outcome = "empty"
          /\ lookups[k].outcome = "found"
          /\ lookups[k].event \in {all_events[h].v : h \in 1..Len(all_events)}
    /\ FoundCount = 1
    /\ fetched_count = 1
    /\ stats.id_fetch_count = 1

\* C5: whatever Phase 1 and Phase 2 merged, in whatever order and with whatever
\* duplicates, the store holds one record per ID, as many records as distinct
\* IDs were merged, and under each ID the record that was merged last.
C5_Dedup ==
    /\ Cardinality(DictKeys(all_events)) = Len(all_events)
    /\ DictKeys(all_events) = seen_ids
    /\ Len(all_events) = Cardinality(seen_ids)
    /\ \A id \in seen_ids : DictGet(all_events, id) = last_write[id]

\* a session in which an ID was merged twice with different content, by
\* Phase 1 and then by Phase 2
C5_Witness ==
    /\ pc = "done"
    /\ replaced
    /\ Len(all_events) >= 2
    /\ \E i \in 1..Len(lookups) :
          /\ lookups[i].outcome = "found"
          /\ Get(lookups[i].event, "service_request_id") \in p1_keys
          /\ DictGet(all_events, Get(lookups[i].event, "service_request_id")) = lookups[i].event

\* a record has a timestamp when the field is there, not null and not empty
HasTimestamp(e) == SortKey(e) \notin {<<>>, None}

\* list holds every value of the store d exactly once
WritesEachOnce(list, d) ==
    /\ Len(list) = Len(d)
    /\ \A i \in 1..Len(d) :
          Cardinality({j \in 1..Len(list) : list[j] = d[i].v}) = 1

\* C6: for any store content, records without a timestamp or with an empty or
\* null one included, save_to_file completes and writes every record of the
\* store exactly once, in an order that is non-increasing in
\* requested_datetime, the records that have no timestamp behind all the
\* records that have one.
C6_SaveOrders ==
    pc # "save" =>
        /\ pc = "stats"
        /\ WritesEachOnce(file, all_events)
        /\ \A i, j \in 1..Len(file) :
              i < j => /\ HasTimestamp(file[i]) \/ ~HasTimestamp(file[j])
                       /\ (HasTimestamp(file[i]) /\ HasTimestamp(file[j])) =>
                             ~StrLess(SortKey(file[i]), SortKey(file[j]))

\* the same records as they stand in the store d and in the store e
SameContent(d, e) ==
    /\ DictKeys(d) = DictKeys(e)
    /\ \A id \in DictKeys(d) : DictGet(d, id) = DictGet(e, id)

\* C7: when phase1_date_based_fetch has run twice against a registry that
\* answers every request the second time as it did the first, the store has
\* the IDs and, under every ID, the record it had after the first run, and
\* still one record per ID.
C7_RerunIdempotent ==
    (run = 2 /\ pc = "analyze") =>
        /\ SameContent(all_events, first_run)
        /\ Len(all_events) = Len(first_run)

\* a second run over two windows that list the same ID with different content
C7_Witness ==
    /\ run = 2
    /\ pc = "analyze"
    /\ Len(first_run) >= 2
    /\ replaced
    /\ Len(called) = 2 * Len(windows)
    /\ Len(windows) = 2

WindowDays(w) == w[2] - w[1] + 1

\* C8: for start <= end the planned windows partition [start, end]: the first
\* begins at start, each later one begins the day after the one before it
\* ends, all but the last span exactly 7 days, the last ends at end and spans
\* 1 to 7 days; every date of [start, end] lies in exactly one window and no
\* window reaches outside [start, end].
C8_WindowsPartition ==
    (run >= 1 /\ start_date <= end_date) =>
        LET n == Len(windows)
        IN  /\ n >= 1
            /\ windows[1][1] = start_date
            /\ \A i \in 1..(n - 1) :
                  /\ windows[i + 1][1] = windows[i][2] + 1
                  /\ WindowDays(windows[i]) = 7
            /\ windows[n][2] = end_date
            /\ WindowDays(windows[n]) \in 1..7
            /\ \A d \in start_date..end_date :
                  Cardinality({i \in 1..n : windows[i][1] <= d /\ d <= windows[i][2]}) = 1
            /\ \A i \in 1..n : start_date <= windows[i][1] /\ windows[i][2] <= end_date

\* 16 days: two windows of 7 days and a last one of 2
C8_Witness ==
    /\ run = 1
    /\ start_date = 1
    /\ end_date = 16
    /\ windows = <<<<1, 7>>, <<8, 14>>, <<15, 16>>>>

\* a span that is a multiple of 7 days: the last window is a whole one
C8_WitnessWhole ==
    /\ run = 1
    /\ start_date = 2
    /\ end_date = 15
    /\ windows = <<<<2, 8>>, <<9, 15>>>>

\* the window fetch has ended on a failed request: the pages before the last
\* one were asked for in order and answered in full, the last request failed,
\* and the value returned is the pages before it
EndsAtFailedPage ==
    LET k == Len(asked)
    IN  /\ k >= 1
        /\ asked = [i \in 1..k |-> i]
        /\ Len(served) = k
        /\ served[k].err # "none"
        /\ \A i \in 1..(k - 1) : served[i].err = "none" /\ Len(served[i].body) = PageSize
        /\ events = Concat(served, k - 1)

\* two window fetches returned the same value, one cut short by an error and
\* one ended normally
SameValueBothWays ==
    \E a, b \in returns : a.value = b.value /\ a.cut /\ ~b.cut

\* C9 as the specification states it: when the request for page k fails,
\* fetch_by_date_range makes no further request for the window, returns
\* exactly the records of pages 1..k-1, and reports the error to its caller,
\* so that the caller can tell a window cut short by an error from a window
\* that ended normally: no value is returned both ways.
C9_ReportsError ==
    /\ (pc = "merge" /\ cut) => EndsAtFailedPage
    /\ ~SameValueBothWays

\* C9 as the code has it: when the request for page k fails, the window fetch
\* ends with page k as its last request (page k is not asked for again and
\* page k+1 is never asked for) and returns exactly the records of pages
\* 1..k-1; every other end of a window fetch follows an answered request. The
\* error is printed, the value returned does not carry it.
C9_ErrorCutsWindow ==
    /\ (pc = "merge" /\ cut) => EndsAtFailedPage
    /\ (pc = "merge" /\ ~cut) => served[Len(served)].err = "none"
    /\ pc = "fetch" => ~cut

\* the request for page 3 fails after two full pages: 200 records returned
C9_Witness ==
    /\ pc = "merge"
    /\ cut
    /\ asked = <<1, 2, 3>>
    /\ served[3].err = "network"
    /\ Len(events) = 2 * PageSize

\* the first request of a window fails with a status: nothing returned, which
\* is also what a window without records returns
C9_WitnessSame ==
    /\ pc = "merge"
    /\ cut
    /\ asked = <<1>>
    /\ served[1].err = "status"
    /\ events = <<>>
    /\ SameValueBothWays

\* Phase 1 has returned or main() has ended
AfterPhase1 == pc \notin {"phase1", "fetch", "merge"}

\* C10: whatever error a window hits in Phase 1 (network error, non-2xx
\* status, malformed payload), the sweep goes on: Phase 1 is never ended by an
\* exception, and when it has ended every planned window was fetched, in
\* order, and the records the windows returned are the ones in the store.
C10_SweepNeverAborts ==
    /\ ~(pc = "crashed" /\ raised = "AttributeError")
    /\ AfterPhase1 => called = windows
    /\ pc = "analyze" => DictKeys(all_events) = seen_ids

\* the lookup met an exception: a network error, a status other than 404, a
\* body that is no JSON, or an item that is no object
RaisedAnswer(l) == l.outcome = "failed"

\* the lookup was answered with an object that carries no ID
NoIdAnswer(l) == l.outcome = "found" /\ Get(l.event, "service_request_id") = None

\* the lookup hit an error: an exception, or a payload of an unexpected shape
ErrorAnswer(l) == RaisedAnswer(l) \/ NoIdAnswer(l)

\* C11: whatever error a Phase 2 point lookup hits (network error, unexpected
\* status, malformed response), the error is caught, the store is left as it
\* was by that lookup, an error line is printed for the ID, and Phase 2 goes
\* on: it ends only when every missing ID has been looked up.
C11_LookupErrorsContained ==
    [][LookupStep =>
          /\ ErrorAnswer(LastLookup) =>
                /\ all_events' = all_events
                /\ LastLookup.printed
          /\ pc' \in {"lookup", "save"}
          /\ pc' = "save" => Len(lookups') = TotalMissing(missing_by_year)]_vars

\* the part of C11 the code keeps: the same for the lookups that raise
C11_RaisedErrorsContained ==
    [][LookupStep =>
          /\ RaisedAnswer(LastLookup) =>
                /\ all_events' = all_events
                /\ LastLookup.printed
                /\ not_found_count' = not_found_count + 1
          /\ pc' \in {"lookup", "save"}
          /\ pc' = "save" => Len(lookups') = TotalMissing(missing_by_year)]_vars

\* C12: a session given a start date later than its end date fails with a
\* configuration error at its start: it never gets past the start otherwise,
\* no registry request is made, nothing is merged into the store, and neither
\* the records file nor the stats file is written.
C12_RejectsReversedDates ==
    start_date > end_date =>
        /\ pc = "phase1" \/ (pc = "crashed" /\ raised = "ConfigurationError")
        /\ called = <<>>
        /\ asked = <<>>
        /\ lookups = <<>>
        /\ all_events = <<>>
        /\ file = Unwritten
        /\ stats_file = Unwritten

\* the part of C12 the code keeps: no request and no merge
C12_ReversedDatesFetchNothing ==
    start_date > end_date =>
        /\ called = <<>>
        /\ asked = <<>>
        /\ lookups = <<>>
        /\ all_events = <<>>

\* what the code does with reversed dates: the session runs to its end and
\* writes an empty records file and the stats
C12_ReversedDatesPersist ==
    /\ start_date > end_date
    /\ pc = "done"
    /\ raised = ""
    /\ file = <<>>
    /\ stats_file = stats

\* C13: in Phase 2 a fixed minimum delay elapses between two consecutive
\* point lookups: when a lookup has returned, the next step of the session is
\* not the next lookup, a delay step comes in between.
C13_DelayBetweenLookups ==
    [][LookupStep => pc' # "lookup"]_vars

\* what the code does: two lookups in two consecutive steps of the session
C13_LookupsBackToBack ==
    /\ pc = "lookup"
    /\ Len(lookups) >= 1

\* the positions of main() inside Phase 1, the gap analysis and Phase 2
BeforeSave == {"phase1", "fetch", "merge", "analyze", "phase2", "lookup"}

\* C14: an interrupt that arrives during Phase 1, the gap analysis or Phase 2
\* ends the session with nothing persisted: the records file and the stats
\* file are not written, whatever the store holds, and the HTTP client is
\* closed; an interrupted session takes no further step.
C14_InterruptDiscards ==
    [][/\ (pc \in BeforeSave /\ pc' = "interrupted") =>
              /\ file' = Unwritten
              /\ stats_file' = Unwritten
              /\ client_closed'
              /\ all_events' = all_events
       /\ pc # "interrupted"]_vars

\* an interrupt in Phase 2, with records of both phases in the store
C14_Witness ==
    /\ pc = "interrupted"
    /\ raised = "KeyboardInterrupt"
    /\ Len(lookups) >= 1
    /\ Len(all_events) >= 2
    /\ yi <= Len(SortedYears(missing_by_year))
    /\ file = Unwritten
    /\ stats_file = Unwritten
    /\ client_closed

\* an interrupt in Phase 1, inside the first of two windows
C14_WitnessPhase1 ==
    /\ pc = "interrupted"
    /\ Len(windows) = 2
    /\ Len(called) = 1
    /\ asked # <<>>
    /\ file = Unwritten
    /\ client_closed

\* how many lookups of the history had one of the outcomes
CountOf(outcomes) == Cardinality({i \in 1..Len(lookups) : lookups[i].outcome \in outcomes})

\* C15: every missing ID handed to Phase 2 is looked up exactly once (no
\* lookup is repeated) and counted in exactly one counter: a record in
\* fetched_count, everything else (404, empty array, any failure) in
\* not_found_count; when Phase 2 has ended the two counters add up to the
\* number of missing IDs.
C15_CountedOnce ==
    /\ \A i, j \in 1..Len(lookups) :
          (lookups[i].id_num = lookups[j].id_num /\ lookups[i].year = lookups[j].year) => i = j
    /\ \A i \in 1..Len(lookups) :
          /\ lookups[i].year \in DOMAIN missing_by_year
          /\ lookups[i].id_num \in missing_by_year[lookups[i].year]
    /\ fetched_count = CountOf({"found"})
    /\ not_found_count = CountOf({"not_found", "empty", "failed"})
    /\ pc \in AfterPhase2 =>
          /\ \A y \in DOMAIN missing_by_year : \A n \in missing_by_year[y] :
                LookedUp(n, y, {"found", "not_found", "empty", "failed"})
          /\ fetched_count + not_found_count = TotalMissing(missing_by_year)

\* a backfill of three missing IDs: one found, one answered 404, one failed
C15_Witness ==
    /\ pc = "save"
    /\ TotalMissing(missing_by_year) = 3
    /\ CountOf({"found"}) = 1
    /\ CountOf({"not_found"}) = 1
    /\ CountOf({"failed"}) = 1
    /\ fetched_count = 1
    /\ not_found_count = 2

\* C16: when no partition has a missing ID (or there is no partition),
\* phase2_id_based_fetch returns without a point lookup and leaves the store
\* and every entry of the stats, id_fetch_count and id_fetch_duration
\* included, as they were.
C16_EmptyGapNoOp ==
    [][(pc = "phase2" /\ TotalMissing(missing_by_year) = 0) =>
          /\ pc' = "save"
          /\ lookups' = lookups
          /\ lookups = <<>>
          /\ all_events' = all_events
          /\ stats' = stats
          /\ stats'.id_fetch_count = 0
          /\ stats'.id_fetch_duration = "zero"]_vars

\* Phase 2 has returned for a partition that is there and has no gap
C16_Witness ==
    /\ pc = "save"
    /\ DOMAIN missing_by_year = {<<"2", "5">>}
    /\ missing_by_year[<<"2", "5">>] = {}
    /\ Len(all_events) = 1
    /\ lookups = <<>>
    /\ stats.id_fetch_duration = "zero"
    /\ stats.date_fetch_count = 1

\* Phase 2 has returned for a store without any partition
C16_WitnessNoPartition ==
    /\ pc = "save"
    /\ DOMAIN missing_by_year = {}
    /\ lookups = <<>>
    /\ stats.id_fetch_duration = "zero"

\* the lookups of a loop without batches: for year in sorted(missing), for
\* id_num in sorted(missing[year]), from the year at index y on
RECURSIVE FlatFrom(_, _)
FlatFrom(missing, y) ==
    IF y > Len(SortedYears(missing)) THEN <<>>
    ELSE [i \in 1..Len(MissingIds(missing, y)) |->
             [year |-> SortedYears(missing)[y], id_num |-> MissingIds(missing, y)[i]]]
         \o FlatFrom(missing, y + 1)

\* the store a loop without batches has after the first k lookups of the
\* history, started from the store the gap analysis saw
RECURSIVE UnbatchedStore(_)
UnbatchedStore(k) ==
    IF k = 0 THEN StoreOf(p1_keys)
    ELSE LET d == UnbatchedStore(k - 1)
         IN  IF lookups[k].outcome = "found"
             THEN DictSet(d, Get(lookups[k].event, "service_request_id"), lookups[k].event)
             ELSE d

\* C17: whatever the length of a batch, Phase 2 looks up the (partition,
\* sequence number) pairs of the gap analysis output as a loop without
\* batches would: each once, partitions in ascending order and numbers in
\* ascending order within a partition, and the store and the two counters
\* are the ones of that loop.
C17_BatchingTransparent ==
    pc \in {"lookup", "save"} =>
        LET flat == FlatFrom(missing_by_year, 1)
            n == Len(lookups)
        IN  /\ n <= Len(flat)
            /\ \A k \in 1..n :
                  lookups[k].year = flat[k].year /\ lookups[k].id_num = flat[k].id_num
            /\ \A k \in 1..(n - 1) :
                  \/ StrLess(lookups[k].year, lookups[k + 1].year)
                  \/ /\ lookups[k].year = lookups[k + 1].year
                     /\ lookups[k].id_num < lookups[k + 1].id_num
            /\ pc = "lookup" =>
                  /\ n < Len(flat)
                  /\ CurrentYear = flat[n + 1].year
                  /\ CurrentIdNum = flat[n + 1].id_num
            /\ pc = "save" => n = Len(flat)
            /\ all_events = UnbatchedStore(n)
            /\ fetched_count = CountOf({"found"})
            /\ not_found_count = n - CountOf({"found"})

\* batches of 2 over two partitions with 3 missing IDs each: the third ID of
\* each partition is in a batch of its own, and one of them was found
C17_Witness ==
    /\ pc = "save"
    /\ bsize = 2
    /\ Len(lookups) = 6
    /\ \A y \in Years : missing_by_year[y] = {1, 2, 3}
    /\ LookedUp(3, <<"2", "5">>, {"found"})
    /\ LookedUp(3, <<"2", "6">>, {"not_found"})
    /\ FormatId(3, <<"2", "5">>) \in DictKeys(all_events)

\* batches of 1, and batches as long as a partition's missing set
C17_WitnessSizes ==
    /\ pc = "save"
    /\ bsize \in {1, 3}
    /\ Len(lookups) = 6
    /\ fetched_count = 3

\* C18: the key set of the store only grows: every step of a session, in
\* Phase 1, the gap analysis, Phase 2, the save and after it, keeps every ID
\* the store holds.
C18_KeysOnlyGrow ==
    [][DictKeys(all_events) \subseteq DictKeys(all_events')]_vars

\* a session that has saved a store to which both phases added IDs
C18_Witness ==
    /\ pc = "done"
    /\ p1_keys # {}
    /\ p1_keys \subseteq DictKeys(all_events)
    /\ DictKeys(all_events) \ p1_keys # {}
    /\ Len(file) = Len(all_events)
    /\ Len(all_events) >= 3

\* the step of the pipeline main() is in
Stage(p) ==
    CASE p \in {"phase1", "fetch", "merge"} -> 1
      [] p = "analyze" -> 2
      [] p \in {"phase2", "lookup"} -> 3
      [] p = "save" -> 4
      [] p = "stats" -> 5
      [] OTHER -> 6

\* C19: the steps of a session happen in the order Phase 1 window fetches,
\* gap analysis (once), Phase 2 lookups, records file, stats file: main()
\* never goes back a step, page requests and window fetches happen only in
\* Phase 1, the analysis result is set by the one analysis step and never
\* again, lookups happen only in Phase 2, the records are written only by
\* the save step and only when every missing ID has been looked up, and the
\* stats only by the step after it.
C19_PipelineOrder ==
    [][/\ Stage(pc) <= Stage(pc')
       /\ (asked' # asked \/ called' # called) => Stage(pc) = 1
       /\ pc = "analyze" => pc' # "analyze"
       /\ (missing_by_year' # missing_by_year \/ p1_keys' # p1_keys) => pc = "analyze"
       /\ lookups' # lookups => pc = "lookup"
       /\ pc # "save" => file' = file
       /\ (pc = "save" /\ pc' = "stats") =>
             Len(lookups) = TotalMissing(missing_by_year)
       /\ pc # "stats" => stats_file' = stats_file
       /\ pc = "stats" => (pc' = "summary" /\ stats_file' = stats)]_vars

\* a session that went through every step: two windows, lookups, both files
C19_Witness ==
    /\ pc = "done"
    /\ Len(called) = 2
    /\ Len(lookups) >= 2
    /\ Len(lookups) = TotalMissing(missing_by_year)
    /\ Len(file) = Len(all_events)
    /\ stats_file = stats
    /\ stats.id_fetch_count = fetched_count

\* the sequence numbers of partition y Phase 1 left in the store
ObservedIn(y) == NumsIn(p1_keys, y, 1..MaxSeq)

\* every record a lookup found carries the ID that was asked for
FoundAsRequested ==
    \A i \in 1..Len(lookups) :
        lookups[i].outcome = "found" =>
            Get(lookups[i].event, "service_request_id")
                = FormatId(lookups[i].id_num, lookups[i].year)

\* C20: Phase 2 looks up only IDs (n, p) of a partition p that had a record
\* after Phase 1, with n below the highest sequence number observed in p (and
\* not observed itself); so, the lookups answering with the record asked
\* for, the store never holds an ID above the observed maximum of its
\* partition, nor an ID of a partition Phase 1 did not see.
C20_LookupsBelowMax ==
    /\ \A i \in 1..Len(lookups) :
          /\ ObservedIn(lookups[i].year) # {}
          /\ lookups[i].id_num >= 1
          /\ lookups[i].id_num < SetMax(ObservedIn(lookups[i].year))
          /\ lookups[i].id_num \notin ObservedIn(lookups[i].year)
    /\ (FoundAsRequested /\ pc \in {"phase2", "lookup"} \cup AfterPhase2) =>
          \A y \in Years : \A n \in 1..(MaxSeq + 1) :
              FormatId(n, y) \in DictKeys(all_events) =>
                  /\ ObservedIn(y) # {}
                  /\ n <= SetMax(ObservedIn(y))

\* the sweep saw only 2-25: ID 1 was looked up and found, nothing above 2 and
\* nothing of partition 26 was asked for, and the final store has neither
C20_Witness ==
    /\ pc = "done"
    /\ p1_keys = {FormatId(2, <<"2", "5">>)}
    /\ Len(lookups) = 1
    /\ LookedUp(1, <<"2", "5">>, {"found"})
    /\ FoundAsRequested
    /\ DictKeys(all_events) = {FormatId(1, <<"2", "5">>), FormatId(2, <<"2", "5">>)}

\* the string form "n-p" of a composite ID: a sequence number, a dash, a partition
IsCompositeId(key) ==
    \E n \in 1..(MaxSeq + 1) : \E y \in Years : key = FormatId(n, y)

\* C21: every key of the store is a non-empty composite ID, and the record
\* under a key carries that same ID; a record a Phase 2 lookup of (n, p) found
\* is in the store under the key "n-p" that was asked for, and no record
\* without an ID is stored by either phase.
C21_StoreKeyedById ==
    /\ \A i \in 1..Len(all_events) :
          /\ Truthy(all_events[i].k)
          /\ IsCompositeId(all_events[i].k)
          /\ Get(all_events[i].v, "service_request_id") = all_events[i].k
    /\ \A i \in 1..Len(lookups) :
          lookups[i].outcome = "found" =>
              /\ Get(lookups[i].event, "service_request_id") # None
              /\ FormatId(lookups[i].id_num, lookups[i].year) \in DictKeys(all_events)

\* the part of C21 the code keeps: a record is stored under the ID it carries,
\* the sweep stores no record without an ID, and the keys are composite IDs
\* as long as every lookup answered with the record that was asked for
C21_StoredUnderOwnId ==
    /\ \A i \in 1..Len(all_events) :
          Get(all_events[i].v, "service_request_id") = all_events[i].k
    /\ None \notin p1_keys
    /\ \A key \in p1_keys : IsCompositeId(key)
    /\ FoundAsRequested =>
          \A key \in DictKeys(all_events) : Truthy(key) /\ IsCompositeId(key)

\* a lookup answered with an object without an ID left a record under None
C21_WitnessNoId ==
    /\ \E i \in 1..Len(lookups) : NoIdAnswer(lookups[i])
    /\ None \in DictKeys(all_events)

\* a lookup of one ID answered with the record of another: the ID asked for
\* is not a key of the store
C21_WitnessOtherId ==
    /\ pc = "done"
    /\ \E i \in 1..Len(lookups) :
          /\ lookups[i].outcome = "found"
          /\ Get(lookups[i].event, "service_request_id") # None
          /\ FormatId(lookups[i].id_num, lookups[i].year) \notin DictKeys(all_events)

=============================================================================
